---- MODULE Spec2Model ----
(***************************************************************************)
(* Evaluation orchestration core of the AI chat evaluator                  *)
(* (services/evaluator: evaluateChat, evaluateWithKRuns, singleEvaluation, *)
(* synthesizeKRunResults, calculateGrade, evaluateEnsembleOnClient,        *)
(* synthesizeResults, parseEvaluationResponse).                            *)
(*                                                                         *)
(* JavaScript values are represented with one TLA+ type per field:         *)
(*   - a string field is a TLA+ string, Undefined standing for an absent   *)
(*     (undefined / null) property;                                        *)
(*   - a numeric field is an integer >= 0, Absent standing for undefined   *)
(*     and JNull for null;                                                 *)
(*   - a list field is a sequence, NoList standing for an absent property. *)
(* A response text is a sequence of tokens (prose, whitespace, the code    *)
(* fence, the json tag, a truncated payload, a complete JSON value).       *)
(***************************************************************************)
EXTENDS Integers, Sequences, FiniteSets, TLC

----------------------------------------------------------------------------
(* Bounds of the model *)

MaxRuns == 3          \* largest evaluationRuns explored
MaxCriteria == 2      \* largest number of rubric criteria explored

----------------------------------------------------------------------------
(* JavaScript primitives *)

Undefined == "<undefined>"
Absent == -1
JNull == -2
NoList == <<Undefined>>

\* a || b on strings: "" and undefined/null are falsy
Or(a, b) == IF a \in {Undefined, ""} THEN b ELSE a

\* a || b on numbers: undefined, null and 0 are falsy
OrNum(a, b) == IF a \in {Absent, JNull, 0} THEN b ELSE a

\* a || [] on lists
OrList(a, b) == IF a = NoList THEN b ELSE a

\* Math.round(num / den) for den > 0: floor(x + 0.5)
MathRound(num, den) == (2 * num + den) \div (2 * den)

RECURSIVE SumSeq(_)
SumSeq(s) == IF s = <<>> THEN 0 ELSE Head(s) + SumSeq(Tail(s))

RECURSIVE Flatten(_)
Flatten(ss) == IF ss = <<>> THEN <<>> ELSE Head(ss) \o Flatten(Tail(ss))

Range(s) == {s[i] : i \in 1..Len(s)}

\* [...new Set(s)]: first occurrences, in order
RECURSIVE Dedup(_)
Dedup(s) ==
    IF s = <<>> THEN <<>>
    ELSE LET init == Dedup(SubSeq(s, 1, Len(s) - 1))
             last == s[Len(s)]
         IN IF last \in Range(init) THEN init ELSE Append(init, last)

\* s.slice(0, k)
Slice(s, k) == SubSeq(s, 1, IF Len(s) < k THEN Len(s) ELSE k)

MinOf_Largest(S) == CHOOSE x \in S : \A y \in S : x >= y

MinOf(S) == CHOOSE x \in S : \A y \in S : x <= y
MaxOf(S) == CHOOSE x \in S : \A y \in S : x >= y

----------------------------------------------------------------------------
(* calculateGrade *)

calculateGrade(score) ==
    IF score >= 95 THEN "A+"
    ELSE IF score >= 90 THEN "A"
    ELSE IF score >= 85 THEN "B+"
    ELSE IF score >= 80 THEN "B"
    ELSE IF score >= 75 THEN "C+"
    ELSE IF score >= 70 THEN "C"
    ELSE IF score >= 65 THEN "D+"
    ELSE IF score >= 60 THEN "D"
    ELSE "F"

----------------------------------------------------------------------------
(* Rubric: criteria c1..cC, each with an id and a name *)

RubricOf(c) == [i \in 1..c |-> [id |-> IF i = 1 THEN "id1" ELSE IF i = 2 THEN "id2" ELSE "id3",
                               name |-> IF i = 1 THEN "n1" ELSE IF i = 2 THEN "n2" ELSE "n3"]]

----------------------------------------------------------------------------
(* JSON values a provider can put in its answer *)

NoDetails == [present |-> FALSE, evidence |-> Undefined, strengths |-> Undefined,
              weaknesses |-> Undefined, improvement |-> Undefined]

\* one element of the criteriaScores array as the provider wrote it
RawCs(k, name, score, maxScore, percentage, evidence, strengths, weaknesses, improvement, feedback) ==
    [k |-> k, criterionId |-> Undefined, name |-> name, score |-> score,
     maxScore |-> maxScore, percentage |-> percentage, evidence |-> evidence,
     strengths |-> strengths, weaknesses |-> weaknesses,
     improvement |-> improvement, feedback |-> feedback]

NullCs == RawCs("null", Undefined, Absent, Absent, Absent, Undefined, Undefined, Undefined, Undefined, Undefined)

\* a complete entry, as the prompt asks for
FullCs(name, score) == RawCs("obj", name, score, 5, score * 20, "ev", "st", "we", "im", Undefined)

\* an entry with only a name and a score
BareCs(name, score) == RawCs("obj", name, score, Absent, Absent, Undefined, Undefined, Undefined, Undefined, Undefined)

\* the decoded JSON value: k is "null", "num" (any primitive) or "obj"
JsonObj(totalScore, grade, csKind, items) ==
    [k |-> "obj", totalScore |-> totalScore, grade |-> grade,
     cs |-> [k |-> csKind, items |-> items],
     characteristics |-> IF csKind = "list" THEN <<"ch1">> ELSE NoList,
     qualitativeEvaluation |-> IF csKind = "list" THEN "q" ELSE Undefined,
     suggestions |-> IF csKind = "list" THEN <<"sg1">> ELSE NoList,
     studentRecordDraft |-> Undefined]

JsonPrim(k) ==
    [k |-> k, totalScore |-> Absent, grade |-> Undefined,
     cs |-> [k |-> "absent", items |-> <<>>],
     characteristics |-> NoList, qualitativeEvaluation |-> Undefined,
     suggestions |-> NoList, studentRecordDraft |-> Undefined]

----------------------------------------------------------------------------
(* Response texts *)

Tok(t) == [t |-> t, v |-> JsonPrim("null")]
Val(v) == [t |-> "val", v |-> v]

\* response.trim() / jsonStr.trim()
RECURSIVE TrimLeft(_)
TrimLeft(s) == IF s # <<>> /\ Head(s).t = "ws" THEN TrimLeft(Tail(s)) ELSE s

RECURSIVE TrimRight(_)
TrimRight(s) == IF s # <<>> /\ s[Len(s)].t = "ws" THEN TrimRight(SubSeq(s, 1, Len(s) - 1)) ELSE s

Trim(s) == TrimRight(TrimLeft(s))

\* !response || response.trim() === ''
IsBlank(response) == Trim(response) = <<>>

TicksAt(s) == {i \in 1..Len(s) : s[i].t = "ticks"}

\* response.match(fence, optional json tag, whitespace, lazy group, fence):
\* group 1, or no match
FenceMatch(s) ==
    IF Cardinality(TicksAt(s)) < 2 THEN [matched |-> FALSE, inner |-> <<>>]
    ELSE LET i == MinOf(TicksAt(s))
             j == MinOf(TicksAt(s) \ {i})
             body == SubSeq(s, i + 1, j - 1)
             noTag == IF body # <<>> /\ Head(body).t = "jsontag" THEN Tail(body) ELSE body
         IN [matched |-> TRUE, inner |-> TrimLeft(noTag)]

\* JSON.parse(jsonStr): the decoded value, or a SyntaxError
JSONParse(s) ==
    IF Len(s) = 1 /\ s[1].t = "val" THEN [ok |-> TRUE, v |-> s[1].v]
    ELSE [ok |-> FALSE, v |-> JsonPrim("null")]

----------------------------------------------------------------------------
(* Result envelopes *)

NoMeta == [present |-> FALSE, runs |-> 0, min |-> 0, max |-> 0, variance |-> 0]

Entry(criterionId, name, score, maxScore, percentage, evidence, strengths, weaknesses, improvement, feedback) ==
    [criterionId |-> criterionId, name |-> name, score |-> score,
     maxScore |-> maxScore, percentage |-> percentage, evidence |-> evidence,
     strengths |-> strengths, weaknesses |-> weaknesses,
     improvement |-> improvement, feedback |-> feedback, details |-> NoDetails]

Envelope(totalScore, grade, criteriaScores, characteristics, qualitativeEvaluation, suggestions, studentRecordDraft) ==
    [totalScore |-> totalScore, grade |-> grade, criteriaScores |-> criteriaScores,
     characteristics |-> characteristics,
     qualitativeEvaluation |-> qualitativeEvaluation, qualitative |-> NoList,
     suggestions |-> suggestions, studentRecordDraft |-> studentRecordDraft,
     evaluationMeta |-> NoMeta]

NoEnvelope == Envelope(Absent, Undefined, <<>>, <<>>, Undefined, <<>>, Undefined)

----------------------------------------------------------------------------
(* parseEvaluationResponse *)

\* one element of criteriaScores, normalised (the .map callback)
NormalizeCs(cs) ==
    LET safeScore == OrNum(cs.score, 0)
        safeMax == OrNum(cs.maxScore, 5)
        calculatedPercentage == MathRound(safeScore * 100, safeMax)
    IN Entry(Or(cs.criterionId, ""), Or(cs.name, ""), safeScore, safeMax,
             IF cs.percentage # Absent THEN cs.percentage ELSE calculatedPercentage,
             Or(cs.evidence, Or(cs.feedback, "no evidence provided")),
             Or(cs.strengths, ""), Or(cs.weaknesses, ""),
             Or(cs.improvement, "no further improvement"),
             Or(cs.feedback, ""))

\* body of the try block after JSON.parse: a TypeError is raised when a
\* property of null is read or when .map is not a function
NormalizeResult(result) ==
    IF result.k = "null" THEN [threw |-> TRUE, env |-> NoEnvelope]
    ELSE IF result.cs.k = "notlist" THEN [threw |-> TRUE, env |-> NoEnvelope]
    ELSE LET items == IF result.cs.k = "list" THEN result.cs.items ELSE <<>>
         IN IF \E i \in 1..Len(items) : items[i].k = "null"
            THEN [threw |-> TRUE, env |-> NoEnvelope]
            ELSE [threw |-> FALSE,
                  env |-> Envelope(OrNum(result.totalScore, 0),
                                   Or(result.grade, "N/A"),
                                   [i \in 1..Len(items) |-> NormalizeCs(items[i])],
                                   OrList(result.characteristics, <<>>),
                                   Or(result.qualitativeEvaluation, ""),
                                   OrList(result.suggestions, <<>>),
                                   Or(result.studentRecordDraft, ""))]

\* the characters of a response text
RECURSIVE Repeat(_, _)
Repeat(str, n) == IF n = 0 THEN "" ELSE str \o Repeat(str, n - 1)

RenderTok(tok) ==
    CASE tok.t = "ticks" -> "[fence]"
      [] tok.t = "long" -> Repeat("0123456789", 50) \o "abcdefghij"
      [] tok.t = "jsontag" -> "json"
      [] tok.t = "ws" -> " "
      [] tok.t = "prose" -> "Sorry, I cannot evaluate this."
      [] tok.t = "trunc" -> "{ totalScore: 8"
      [] OTHER -> "{...}"

RECURSIVE RenderText(_)
RenderText(s) == IF s = <<>> THEN "" ELSE RenderTok(Head(s)) \o RenderText(Tail(s))

\* str.substring(from, to), 0-based, to exclusive and clamped to the length
\* variant: the excerpt is the whole text
Substring_Whole(str, from, to) == str

Substring(str, from, to) == SubSeq(str, from + 1, IF Len(str) < to THEN Len(str) ELSE to)

\* the catch block: the degraded envelope
DegradedEnvelope(response, rubric) ==
    Envelope(0, "N/A",
             [i \in 1..Len(rubric) |->
                 Entry(rubric[i].id, rubric[i].name, 0, 5, 0,
                       Undefined, Undefined, Undefined, Undefined, "cannot parse")],
             <<"parse error">>,
             "parse error, raw response: " \o Substring(RenderText(response), 0, 500) \o "...",
             <<"try again">>, "")

\* variant: the try block covers JSON.parse only
parseEvaluationResponse_NoCatch(response, rubric) ==
    LET jsonMatch == FenceMatch(response)
        jsonStr == Trim(IF jsonMatch.matched THEN jsonMatch.inner ELSE response)
        decoded == JSONParse(jsonStr)
        normal == NormalizeResult(decoded.v)
    IN IF jsonStr = <<>> \/ ~decoded.ok
       THEN [raised |-> FALSE, degraded |-> TRUE, env |-> DegradedEnvelope(response, rubric)]
       ELSE [raised |-> normal.threw, degraded |-> FALSE, env |-> normal.env]

\* raised is TRUE when an exception leaves the function
parseEvaluationResponse(response, rubric) ==
    LET jsonMatch == FenceMatch(response)
        jsonStr == Trim(IF jsonMatch.matched THEN jsonMatch.inner ELSE response)
        decoded == JSONParse(jsonStr)
        normal == NormalizeResult(decoded.v)
    IN IF jsonStr = <<>> \/ ~decoded.ok \/ normal.threw
       THEN [raised |-> FALSE, degraded |-> TRUE, env |-> DegradedEnvelope(response, rubric)]
       ELSE [raised |-> FALSE, degraded |-> FALSE, env |-> normal.env]

----------------------------------------------------------------------------
(* synthesizeKRunResults *)

\* criteriaScoresMap after the forEach loops: the names in insertion order
\* (Object.values order for names that are not integer-like)
AllCriteria(results) == Flatten([i \in 1..Len(results) |-> results[i].criteriaScores])

NamesOf(entries) == Dedup([i \in 1..Len(entries) |-> entries[i].name])

SelectByName(entries, name) == SelectSeq(entries, LAMBDA cs : cs.name = name)

\* allDetails of one name: the details objects of its entries
AllDetails(occ) ==
    LET withDetails == SelectSeq(occ, LAMBDA cs : cs.details.present)
    IN [i \in 1..Len(withDetails) |-> withDetails[i].details]

\* texts.filter(Boolean)
Truthy(texts) == SelectSeq(texts, LAMBDA t : t \notin {Undefined, ""})

\* [...new Set(texts)].slice(0, 2).join(newline)
JoinTwo(texts) ==
    LET u == Slice(Dedup(texts), 2)
    IN IF u = <<>> THEN ""
       ELSE IF Len(u) = 1 THEN u[1]
       ELSE u[1] \o "\n" \o u[2]

\* texts.sort((a, b) => b.length - a.length)[0]: the first longest (stable sort)
Longest(texts) ==
    IF texts = <<>> THEN Undefined
    ELSE texts[MinOf({i \in 1..Len(texts) : \A j \in 1..Len(texts) : Len(texts[j]) <= Len(texts[i])})]

\* variant: the score of the first run instead of the mean
SynthesizeCriterion_First(occ) ==
    [criterionId |-> Undefined, name |-> occ[1].name,
     score |-> occ[1].score, maxScore |-> occ[1].maxScore,
     percentage |-> Absent, evidence |-> "", strengths |-> "", weaknesses |-> "",
     improvement |-> "", feedback |-> Undefined, details |-> NoDetails]

SynthesizeCriterion(occ) ==
    LET cs == occ[1]
        allDetails == AllDetails(occ)
        allStrengths == Truthy([i \in 1..Len(allDetails) |-> allDetails[i].strengths])
        allWeaknesses == Truthy([i \in 1..Len(allDetails) |-> allDetails[i].weaknesses])
        allImprovements == Truthy([i \in 1..Len(allDetails) |-> allDetails[i].improvement])
        allEvidence == Truthy([i \in 1..Len(allDetails) |-> allDetails[i].evidence])
        scoreSum == SumSeq([i \in 1..Len(occ) |-> occ[i].score])
        count == Len(occ)
    IN [criterionId |-> Undefined, name |-> cs.name,
        score |-> MathRound(scoreSum, count), maxScore |-> cs.maxScore,
        percentage |-> Absent,
        evidence |-> Or(Longest(allEvidence), ""),
        strengths |-> JoinTwo(allStrengths),
        weaknesses |-> JoinTwo(allWeaknesses),
        improvement |-> JoinTwo(allImprovements),
        feedback |-> Undefined,
        details |-> IF allDetails = <<>> THEN NoDetails ELSE allDetails[1]]

synthesizeKRunResults(results) ==
    LET n == Len(results)
        scores == [i \in 1..n |-> results[i].totalScore]
        avgScore == MathRound(SumSeq(scores), n)
        minScore == MinOf(Range(scores))
        maxScore == MaxOf(Range(scores))
        all == AllCriteria(results)
        names == NamesOf(all)
        allDrafts == [i \in 1..n |-> Or(results[i].studentRecordDraft, "")]
    IN [totalScore |-> avgScore,
        grade |-> calculateGrade(avgScore),
        criteriaScores |-> [k \in 1..Len(names) |-> SynthesizeCriterion(SelectByName(all, names[k]))],
        characteristics |-> Slice(Dedup(Flatten([i \in 1..n |-> OrList(results[i].characteristics, <<>>)])), 5),
        qualitativeEvaluation |-> Undefined,
        qualitative |-> OrList(results[1].qualitative, <<>>),
        suggestions |-> Slice(Dedup(Flatten([i \in 1..n |-> OrList(results[i].suggestions, <<>>)])), 4),
        studentRecordDraft |-> Or(Longest(allDrafts), ""),
        evaluationMeta |-> [present |-> TRUE, runs |-> n, min |-> minScore,
                            max |-> maxScore, variance |-> maxScore - minScore]]

----------------------------------------------------------------------------
(* synthesizeResults (cross-provider synthesis over raw texts) *)

Digit(i) == IF i = 1 THEN "1" ELSE IF i = 2 THEN "2" ELSE IF i = 3 THEN "3" ELSE "4"

RECURSIVE Join(_, _)
Join(texts, sep) ==
    IF texts = <<>> THEN ""
    ELSE IF Len(texts) = 1 THEN texts[1]
    ELSE texts[1] \o sep \o Join(Tail(texts), sep)

\* the try block of the forEach: the decoded object when it is kept
EnsembleDecode(text) ==
    LET m == FenceMatch(text)
        jsonStr == Trim(IF m.matched THEN m.inner ELSE text)
        decoded == JSONParse(jsonStr)
    IN [valid |-> decoded.ok /\ decoded.v.k # "null" /\ decoded.v.totalScore # Absent,
        obj |-> decoded.v]

ValidResults(texts) ==
    LET d == [i \in 1..Len(texts) |-> EnsembleDecode(texts[i])]
        kept == SelectSeq(d, LAMBDA x : x.valid)
    IN [i \in 1..Len(kept) |-> kept[i].obj]

\* r.criteriaScores[idx] (idx from 1): NullCs stands for undefined / null / a
\* primitive, none of which carries a score or a narrative field
CsAt(r, idx) ==
    IF r.cs.k = "list" /\ idx <= Len(r.cs.items) THEN r.cs.items[idx] ELSE NullCs

\* reading r.criteriaScores[idx] raises when criteriaScores is undefined or null
CsAtThrows(r) == r.cs.k \in {"absent", "null"}

EnsembleCriterion(validResults, criterion, idx) ==
    LET count == Len(validResults)
        at == [i \in 1..count |-> CsAt(validResults[i], idx)]
        sum == SumSeq([i \in 1..count |-> OrNum(at[i].score, 0)])
    IN [criterionId |-> criterion.criterionId, name |-> criterion.name,
        score |-> MathRound(sum, count), maxScore |-> criterion.maxScore,
        percentage |-> criterion.percentage,
        evidence |-> Join(Truthy([i \in 1..count |-> at[i].evidence]), "\n"),
        strengths |-> Join(Truthy([i \in 1..count |-> at[i].strengths]), " / "),
        weaknesses |-> Join(Truthy([i \in 1..count |-> at[i].weaknesses]), "\n"),
        improvement |-> Join(Truthy([i \in 1..count |-> at[i].improvement]), "\n"),
        feedback |-> criterion.feedback, details |-> NoDetails]

\* threw: a TypeError leaves the function; parsed: FALSE when no text could
\* be decoded and the first raw text is returned instead
synthesizeResults(texts) ==
    LET validResults == ValidResults(texts)
        count == Len(validResults)
        base == validResults[1]
        nothing == [threw |-> FALSE, parsed |-> FALSE, env |-> NoEnvelope]
    IN IF count = 0 THEN nothing
       ELSE IF base.cs.k # "list" THEN [nothing EXCEPT !.threw = TRUE]
       ELSE IF base.cs.items # <<>> /\ \E i \in 1..count : CsAtThrows(validResults[i])
            THEN [nothing EXCEPT !.threw = TRUE]
       ELSE [threw |-> FALSE, parsed |-> TRUE,
             env |-> [totalScore |-> MathRound(SumSeq([i \in 1..count |-> OrNum(validResults[i].totalScore, 0)]), count),
                      grade |-> base.grade,
                      criteriaScores |-> [idx \in 1..Len(base.cs.items) |->
                                            EnsembleCriterion(validResults, base.cs.items[idx], idx)],
                      characteristics |-> Dedup(Flatten([i \in 1..count |-> OrList(validResults[i].characteristics, <<>>)])),
                      qualitativeEvaluation |-> Join([i \in 1..count |-> "[opinion " \o Digit(i) \o "]\n" \o validResults[i].qualitativeEvaluation], "\n\n---\n\n"),
                      qualitative |-> NoList,
                      suggestions |-> Dedup(Flatten([i \in 1..count |-> OrList(validResults[i].suggestions, <<>>)])),
                      studentRecordDraft |-> base.studentRecordDraft,
                      evaluationMeta |-> NoMeta]]

----------------------------------------------------------------------------
(* The answers a provider or the proxy can give *)

Providers == <<"gemini", "openai", "claude">>

GoodJson == JsonObj(90, "A", "list", <<FullCs("n1", 4), FullCs("n2", 5)>>)
SwappedJson == JsonObj(89, "A", "list", <<FullCs("n2", 3), FullCs("n1", 2)>>)
ShortJson == JsonObj(59, "D", "list", <<BareCs("n1", 3)>>)
NoTotalJson == JsonObj(Absent, Undefined, "absent", <<>>)
NotListJson == JsonObj(70, "C", "notlist", <<>>)
NullItemJson == JsonObj(80, "B", "list", <<NullCs>>)
OverJson == JsonObj(150, "A+", "list", <<FullCs("n1", 5)>>)

NullPercentageJson ==
    JsonObj(80, "B", "list",
            <<RawCs("obj", "n1", 4, 5, JNull, "ev", "st", "we", "im", Undefined)>>)

ManyJson ==
    [JsonObj(80, "B", "list", <<FullCs("n1", 4)>>) EXCEPT
        !.characteristics = <<"ch1", "ch2", "ch3">>,
        !.suggestions = <<"sg1", "sg2", "sg3">>]

MoreJson ==
    [JsonObj(70, "C", "list", <<FullCs("n1", 3)>>) EXCEPT
        !.characteristics = <<"ch3", "ch4", "ch5", "ch6">>,
        !.suggestions = <<"sg3", "sg4", "sg5">>]

EmptyText == <<>>
BlankText == <<Tok("ws")>>
ProseText == <<Tok("prose")>>
LongText == <<Tok("long")>>
TruncatedText == <<Tok("ticks"), Tok("jsontag"), Tok("ws"), Tok("trunc")>>
NullText == <<Val(JsonPrim("null"))>>
GoodText == <<Tok("ticks"), Tok("jsontag"), Tok("ws"), Val(GoodJson), Tok("ws"), Tok("ticks")>>
SwappedText == <<Tok("prose"), Tok("ticks"), Val(SwappedJson), Tok("ticks"), Tok("prose")>>
ShortText == <<Tok("ws"), Val(ShortJson), Tok("ws")>>
NoTotalText == <<Val(NoTotalJson)>>
NotListText == <<Val(NotListJson)>>
NullItemText == <<Val(NullItemJson)>>
OverText == <<Val(OverJson)>>
NullPercentageText == <<Val(NullPercentageJson)>>
ManyText == <<Val(ManyJson)>>
MoreText == <<Val(MoreJson)>>

\* texts returned to the single-shot evaluator and to the ensemble executor
Responses ==
    {EmptyText, BlankText, ProseText, TruncatedText, NullText, GoodText, SwappedText,
     ShortText, NoTotalText, NotListText, NullItemText, OverText, ManyText, MoreText, LongText,
     NullPercentageText}

\* texts returned to the runs of a K-run batch
RunResponses == {EmptyText, ProseText, GoodText, SwappedText, ShortText, NoTotalText}

----------------------------------------------------------------------------
(* State *)

VARIABLES
    pc,           \* position of the caller: "idle", "single", "fallback", "kruns", "ensemble",
                  \* "parsing", "done", "failed"
    apiSettings,  \* settings of the evaluateChat call in progress
    rubric,       \* rubric of the call
    attempt,      \* loop variable of the retry loop
    inflight,     \* what the pending attempt awaits: "none", "direct", "proxy", "unsupported",
                  \* or "silent" when the remote side will never answer
    lastError,    \* lastError of evaluateChat
    runs,         \* K-run: one slot per promise, in dispatch order
    calls,        \* ensemble: one slot per provider (promises array)
    result,       \* value returned to the caller
    error,        \* error thrown to the caller
    log,          \* requests issued and attempts failed so far
    app,          \* AppContext: the settings of the page, the overlay fetch issued on mount,
                  \* isAdminAuthenticated; and the server: its global config and the
                  \* request to /api/config on its way
    home          \* Home page: isLoading, error, step, and the settings it submitted

vars == <<pc, apiSettings, rubric, attempt, inflight, lastError, runs, calls, result, error, log,
          app, home>>

MAX_RETRIES == 2

NoSettings == [provider |-> "gemini", hasKey |-> FALSE, useServerSide |-> FALSE,
               evaluationRuns |-> 1, modelOk |-> TRUE]

NoResult == [kind |-> "none", env |-> NoEnvelope, text |-> <<>>, from |-> <<>>, via |-> "none"]
NoError == [kind |-> "none", direct |-> "", proxy |-> "", errors |-> <<>>]
NoSlot == [st |-> "none", env |-> NoEnvelope, text |-> <<>>, err |-> ""]
\* a promise that is not awaited, or that has fulfilled or rejected
Settled(slot) == slot.st \in {"none", "ok", "failed"}

NoLog == [mode |-> "none", direct |-> 0, proxy |-> 0, fallback |-> 0, failed |-> 0,
          fallbackOk |-> FALSE, synth |-> 0]

\* apiSettings of AppContext: the selected provider, the providers with a
\* non-empty apiKeys entry, whether the legacy apiKey field is non-empty
NoAppSettings == [provider |-> "gemini", apiKeys |-> {}, apiKey |-> FALSE, evaluationRuns |-> 1]

\* what the server's store holds under CONFIG_KEY, and the body of a request
NoConfig == [present |-> FALSE, provider |-> "", apiKeys |-> {}, apiKey |-> FALSE, evaluationRuns |-> 1]

\* a rubric of the page: its id, and a name standing for its content
DEFAULT_RUBRIC == [id |-> "default", name |-> "v0"]

\* currentRubric = null, and a key of the local storage that holds nothing
NullRubric == [id |-> "<null>", name |-> ""]
NothingSaved == <<NullRubric>>

\* the local storage after the first mount: initSettings has saved the default
\* rubric list, no rubric has been selected
FirstStorage == [rubrics |-> <<DEFAULT_RUBRIC>>, currentRubricId |-> NullRubric.id]

NoReload == [done |-> FALSE, before |-> <<>>]

NoApp == [settings |-> NoAppSettings, overlay |-> "none", isAdminAuthenticated |-> FALSE,
          kv |-> NoConfig, post |-> NoConfig,
          rubrics |-> <<DEFAULT_RUBRIC>>, currentRubric |-> NullRubric,
          storage |-> FirstStorage, added |-> 0, reload |-> NoReload]

NoHome == [isLoading |-> FALSE, error |-> "", step |-> 1, evaluationResult |-> NoResult, submitted |-> FALSE,
           snapshot |-> NoAppSettings, overlayAtSubmit |-> "none"]

Init ==
    /\ pc = "idle"
    /\ apiSettings = NoSettings
    /\ rubric = <<>>
    /\ attempt = 0
    /\ inflight = "none"
    /\ lastError = ""
    /\ runs = <<>>
    /\ calls = [i \in 1..Len(Providers) |-> NoSlot]
    /\ result = NoResult
    /\ error = NoError
    /\ log = NoLog
    /\ app = NoApp
    /\ home = NoHome

----------------------------------------------------------------------------
(* singleEvaluation *)

\* where singleEvaluation sends the prompt
Route(s) ==
    IF s.useServerSide \/ ~s.hasKey THEN "proxy"
    ELSE IF s.provider \in Range(Providers) THEN "direct"
    ELSE "unsupported"

\* log after k calls of singleEvaluation
Issued(l, s, k) ==
    IF Route(s) = "proxy" THEN [l EXCEPT !.proxy = @ + k]
    ELSE IF Route(s) = "direct" THEN [l EXCEPT !.direct = @ + k]
    ELSE l

----------------------------------------------------------------------------
(* evaluateChat *)

\* evaluateChat from its call to its first await
EvaluateChat(s, c) ==
    /\ pc = "idle"
    /\ apiSettings' = s
    /\ rubric' = RubricOf(c)
    /\ UNCHANGED <<lastError, calls, result>>
    /\ IF ~s.modelOk
       THEN /\ pc' = "failed"
            /\ error' = [NoError EXCEPT !.kind = "model"]
            /\ log' = [log EXCEPT !.mode = "invalid"]
            /\ UNCHANGED <<attempt, inflight, runs>>
       ELSE IF s.evaluationRuns > 1
       THEN \* evaluateWithKRuns: every promise is created before the await
            /\ pc' = "kruns"
            /\ runs' = [i \in 1..s.evaluationRuns |-> [NoSlot EXCEPT !.st = "pending"]]
            /\ log' = Issued([log EXCEPT !.mode = "kruns"], s, s.evaluationRuns)
            /\ UNCHANGED <<attempt, inflight, error>>
       ELSE /\ pc' = "single"
            /\ attempt' = 0
            /\ inflight' = Route(s)
            /\ log' = Issued([log EXCEPT !.mode = "single"], s, 1)
            /\ UNCHANGED <<runs, error>>
    /\ UNCHANGED app

\* variant: the fallback is tried whatever useServerSide says
AttemptFailed_NoGuard(err) ==
    /\ lastError' = err
    /\ UNCHANGED <<apiSettings, rubric, runs, calls, result>>
    /\ IF attempt = MAX_RETRIES
       THEN /\ pc' = "fallback"
            /\ inflight' = "proxy"
            /\ log' = [log EXCEPT !.failed = @ + 1, !.fallback = @ + 1]
            /\ UNCHANGED <<attempt, error>>
       ELSE /\ attempt' = attempt + 1
            /\ inflight' = Route(apiSettings)
            /\ log' = Issued([log EXCEPT !.failed = @ + 1], apiSettings, 1)
            /\ UNCHANGED <<pc, error>>
    /\ UNCHANGED <<app, home>>

\* the catch block of the retry loop and what follows it
AttemptFailed(err) ==
    /\ lastError' = err
    /\ UNCHANGED <<apiSettings, rubric, runs, calls, result>>
    /\ IF attempt = MAX_RETRIES /\ ~apiSettings.useServerSide
       THEN /\ pc' = "fallback"
            /\ inflight' = "proxy"
            /\ log' = [log EXCEPT !.failed = @ + 1, !.fallback = @ + 1]
            /\ UNCHANGED <<attempt, error>>
       ELSE IF attempt < MAX_RETRIES
       THEN /\ attempt' = attempt + 1
            /\ inflight' = Route(apiSettings)
            /\ log' = Issued([log EXCEPT !.failed = @ + 1], apiSettings, 1)
            /\ UNCHANGED <<pc, error>>
       ELSE /\ pc' = "failed"
            /\ inflight' = "none"
            /\ error' = [NoError EXCEPT !.kind = "last", !.direct = err]
            /\ log' = [log EXCEPT !.failed = @ + 1]
            /\ UNCHANGED attempt
    /\ UNCHANGED <<app, home>>

\* singleEvaluation fulfils with a text
AttemptResolves(response) ==
    /\ pc = "single"
    /\ inflight \in {"direct", "proxy"}
    /\ LET parsed == parseEvaluationResponse(response, rubric)
       IN IF IsBlank(response) THEN AttemptFailed("empty")
          ELSE IF parsed.raised THEN AttemptFailed("typeerror")
          ELSE /\ pc' = "done"
               /\ inflight' = "none"
               /\ result' = [kind |-> "envelope", env |-> parsed.env, text |-> <<>>,
                             from |-> response, via |-> inflight]
               /\ UNCHANGED <<apiSettings, rubric, attempt, lastError, runs, calls, error, log>>
    /\ UNCHANGED <<app, home>>

\* singleEvaluation rejects
AttemptRejects ==
    /\ pc = "single"
    /\ inflight # "silent"
    /\ AttemptFailed(IF inflight = "unsupported" THEN "unsupported" ELSE "api")
    /\ UNCHANGED <<app, home>>

\* variant: an answer that cannot be decoded is thrown as an error
FallbackResolves_Throw(response) ==
    /\ pc = "fallback"
    /\ inflight = "proxy"
    /\ inflight' = "none"
    /\ log' = [log EXCEPT !.fallbackOk = TRUE]
    /\ UNCHANGED <<apiSettings, rubric, attempt, lastError, runs, calls>>
    /\ LET parsed == parseEvaluationResponse(response, rubric)
       IN IF parsed.raised \/ parsed.degraded
          THEN /\ pc' = "failed"
               /\ error' = [NoError EXCEPT !.kind = "aggregate", !.direct = lastError, !.proxy = "typeerror"]
               /\ UNCHANGED result
          ELSE /\ pc' = "done"
               /\ result' = [kind |-> "envelope", env |-> parsed.env, text |-> <<>>,
                             from |-> response, via |-> "fallback"]
               /\ UNCHANGED error
    /\ UNCHANGED <<app, home>>

\* the proxy fallback fulfils
FallbackResolves(response) ==
    /\ pc = "fallback"
    /\ inflight = "proxy"
    /\ inflight' = "none"
    /\ log' = [log EXCEPT !.fallbackOk = TRUE]
    /\ UNCHANGED <<apiSettings, rubric, attempt, lastError, runs, calls>>
    /\ LET parsed == parseEvaluationResponse(response, rubric)
       IN IF parsed.raised
          THEN /\ pc' = "failed"
               /\ error' = [NoError EXCEPT !.kind = "aggregate", !.direct = lastError, !.proxy = "typeerror"]
               /\ UNCHANGED result
          ELSE /\ pc' = "done"
               /\ result' = [kind |-> "envelope", env |-> parsed.env, text |-> <<>>,
                             from |-> response, via |-> "fallback"]
               /\ UNCHANGED error
    /\ UNCHANGED <<app, home>>

\* variant: the failed fallback rethrows the last attempt's error alone
FallbackRejects_LastOnly ==
    /\ pc = "fallback"
    /\ inflight = "proxy"
    /\ pc' = "failed"
    /\ inflight' = "none"
    /\ error' = [NoError EXCEPT !.kind = "last", !.direct = lastError]
    /\ UNCHANGED <<apiSettings, rubric, attempt, lastError, runs, calls, result, log>>
    /\ UNCHANGED <<app, home>>

\* the proxy fallback rejects
FallbackRejects ==
    /\ pc = "fallback"
    /\ inflight = "proxy"
    /\ pc' = "failed"
    /\ inflight' = "none"
    /\ error' = [NoError EXCEPT !.kind = "aggregate", !.direct = lastError, !.proxy = "api"]
    /\ UNCHANGED <<apiSettings, rubric, attempt, lastError, runs, calls, result, log>>
    /\ UNCHANGED <<app, home>>

\* the remote side of the pending request (provider or proxy) never answers:
\* the fetch has no timer and no abort signal, so its promise stays pending
AttemptHangs ==
    /\ pc \in {"single", "fallback"}
    /\ inflight \in {"direct", "proxy"}
    /\ inflight' = "silent"
    /\ UNCHANGED <<pc, apiSettings, rubric, attempt, lastError, runs, calls, result, error, log>>
    /\ UNCHANGED <<app, home>>

----------------------------------------------------------------------------
(* evaluateWithKRuns *)

\* run i fulfils: .then(response => parseEvaluationResponse(response, rubric))
RunResolves(i, response) ==
    /\ pc = "kruns"
    /\ i \in 1..Len(runs)
    /\ runs[i].st = "pending"
    /\ Route(apiSettings) # "unsupported"
    /\ LET parsed == parseEvaluationResponse(response, rubric)
       IN runs' = [runs EXCEPT ![i] =
                     IF parsed.raised THEN [NoSlot EXCEPT !.st = "failed"]
                     ELSE [NoSlot EXCEPT !.st = "ok", !.env = parsed.env, !.text = response]]
    /\ UNCHANGED <<pc, apiSettings, rubric, attempt, inflight, lastError, calls, result, error, log>>
    /\ UNCHANGED <<app, home>>

\* variant: a rejected run cancels the runs that are still pending
RunRejects_CancelAll(i) ==
    /\ pc = "kruns"
    /\ i \in 1..Len(runs)
    /\ runs[i].st = "pending"
    /\ runs' = [j \in 1..Len(runs) |->
                 IF runs[j].st = "pending" THEN [NoSlot EXCEPT !.st = "failed"] ELSE runs[j]]
    /\ UNCHANGED <<pc, apiSettings, rubric, attempt, inflight, lastError, calls, result, error, log>>
    /\ UNCHANGED <<app, home>>

\* run i rejects: .catch(err => null)
RunRejects(i) ==
    /\ pc = "kruns"
    /\ i \in 1..Len(runs)
    /\ runs[i].st = "pending"
    /\ runs' = [runs EXCEPT ![i] = [NoSlot EXCEPT !.st = "failed"]]
    /\ UNCHANGED <<pc, apiSettings, rubric, attempt, inflight, lastError, calls, result, error, log>>
    /\ UNCHANGED <<app, home>>

\* the remote side of run i never answers
RunHangs(i) ==
    /\ pc = "kruns"
    /\ i \in 1..Len(runs)
    /\ runs[i].st = "pending"
    /\ runs' = [runs EXCEPT ![i] = [NoSlot EXCEPT !.st = "silent"]]
    /\ UNCHANGED <<pc, apiSettings, rubric, attempt, inflight, lastError, calls, result, error, log>>
    /\ UNCHANGED <<app, home>>

\* variant: the filter keeps the failed slots
SuccessfulRuns_KeepAll(rs) == [i \in 1..Len(rs) |-> rs[i].env]

\* results.filter(r => r !== null)
SuccessfulRuns(rs) ==
    LET ok == SelectSeq(rs, LAMBDA r : r.st = "ok")
    IN [i \in 1..Len(ok) |-> ok[i].env]

\* variant: one rejected run rejects the whole batch
KRunJoin_Strict ==
    /\ pc = "kruns"
    /\ \A i \in 1..Len(runs) : Settled(runs[i])
    /\ UNCHANGED <<apiSettings, rubric, attempt, inflight, lastError, runs, calls>>
    /\ LET successfulResults == SuccessfulRuns(runs)
       IN IF Len(successfulResults) < Len(runs)
          THEN /\ pc' = "failed"
               /\ error' = [NoError EXCEPT !.kind = "allruns"]
               /\ UNCHANGED <<result, log>>
          ELSE /\ pc' = "done"
               /\ result' = [kind |-> "envelope", env |-> synthesizeKRunResults(successfulResults),
                             text |-> <<>>, from |-> <<>>, via |-> "kruns"]
               /\ log' = [log EXCEPT !.synth = @ + 1]
               /\ UNCHANGED error
    /\ UNCHANGED <<app, home>>

\* the continuation of await Promise.all(promises)
KRunJoin ==
    /\ pc = "kruns"
    /\ \A i \in 1..Len(runs) : Settled(runs[i])
    /\ UNCHANGED <<apiSettings, rubric, attempt, inflight, lastError, runs, calls>>
    /\ LET successfulResults == SuccessfulRuns(runs)
       IN IF Len(successfulResults) = 0
          THEN /\ pc' = "failed"
               /\ error' = [NoError EXCEPT !.kind = "allruns"]
               /\ UNCHANGED <<result, log>>
          ELSE /\ pc' = "done"
               /\ result' = [kind |-> "envelope", env |-> synthesizeKRunResults(successfulResults),
                             text |-> <<>>, from |-> <<>>, via |-> "kruns"]
               /\ log' = [log EXCEPT !.synth = @ + 1]
               /\ UNCHANGED error
    /\ UNCHANGED <<app, home>>

----------------------------------------------------------------------------
(* evaluateEnsembleOnClient *)

\* providers that are enabled and have a key, in the order of the if statements
Qualifying(apiKeys, enabledServices) ==
    {i \in 1..Len(Providers) : Providers[i] \in enabledServices /\ Providers[i] \in apiKeys}

\* evaluateEnsembleOnClient from its call to its first await: each push
\* calls the adapter, which issues its fetch before the length check is made
EvaluateEnsembleOnClient(apiKeys, enabledServices) ==
    /\ pc = "idle"
    /\ LET q == Qualifying(apiKeys, enabledServices)
       IN /\ calls' = [i \in 1..Len(Providers) |->
                         IF i \in q THEN [NoSlot EXCEPT !.st = "pending"] ELSE NoSlot]
          /\ log' = [log EXCEPT !.mode = "ensemble", !.direct = @ + Cardinality(q)]
          /\ IF Cardinality(q) < 2
             THEN /\ pc' = "failed"
                  /\ error' = [NoError EXCEPT !.kind = "quorum"]
             ELSE /\ pc' = "ensemble"
                  /\ UNCHANGED error
    /\ UNCHANGED <<apiSettings, rubric, attempt, inflight, lastError, runs, result>>
    /\ UNCHANGED <<app, home>>

\* the adapter of provider i returns its text
ProviderResolves(i, text) ==
    /\ pc \in {"ensemble", "failed"}
    /\ calls[i].st = "pending"
    /\ calls' = [calls EXCEPT ![i] = [NoSlot EXCEPT !.st = "ok", !.text = text]]
    /\ UNCHANGED <<pc, apiSettings, rubric, attempt, inflight, lastError, runs, result, error, log>>
    /\ UNCHANGED <<app, home>>

\* messages of the errors an adapter throws; "" is an error without a message
ErrorMessages == {"", "quota", "network"}

\* the adapter of provider i throws an error with this message
ProviderRejects(i, message) ==
    /\ pc \in {"ensemble", "failed"}
    /\ calls[i].st = "pending"
    /\ calls' = [calls EXCEPT ![i] = [NoSlot EXCEPT !.st = "failed", !.err = message]]
    /\ UNCHANGED <<pc, apiSettings, rubric, attempt, inflight, lastError, runs, result, error, log>>
    /\ UNCHANGED <<app, home>>

\* provider i never answers
ProviderHangs(i) ==
    /\ pc \in {"ensemble", "failed"}
    /\ calls[i].st = "pending"
    /\ calls' = [calls EXCEPT ![i] = [NoSlot EXCEPT !.st = "silent"]]
    /\ UNCHANGED <<pc, apiSettings, rubric, attempt, inflight, lastError, runs, result, error, log>>
    /\ UNCHANGED <<app, home>>

\* results.filter(r => r.status === 'fulfilled').map(r => r.value)
SuccessfulTexts(cs) ==
    LET ok == SelectSeq(cs, LAMBDA c : c.st = "ok")
    IN [i \in 1..Len(ok) |-> ok[i].text]

EmptyObjectText == <<Val(JsonObj(Absent, Undefined, "absent", <<>>))>>

\* results.filter(r => r.status === 'rejected').map(r => r.reason?.message || 'Unknown error')
RejectedMessages(cs) ==
    LET rejected == SelectSeq(cs, LAMBDA c : c.st = "failed")
    IN [i \in 1..Len(rejected) |-> Or(rejected[i].err, "Unknown error")]

\* variant: the executor goes on as soon as one call has fulfilled
EnsembleJoin_Race ==
    /\ pc = "ensemble"
    /\ \/ \A i \in 1..Len(calls) : Settled(calls[i])
       \/ \E i \in 1..Len(calls) : calls[i].st = "ok"
    /\ UNCHANGED <<apiSettings, rubric, attempt, inflight, lastError, runs, calls>>
    /\ LET successfulResults == SuccessfulTexts(calls)
           synth == synthesizeResults(successfulResults)
       IN IF Len(successfulResults) = 0
          THEN /\ pc' = "failed"
               /\ error' = [NoError EXCEPT !.kind = "allproviders", !.errors = RejectedMessages(calls)]
               /\ UNCHANGED <<result, log>>
          ELSE IF synth.threw
          THEN /\ pc' = "failed"
               /\ error' = [NoError EXCEPT !.kind = "typeerror"]
               /\ log' = [log EXCEPT !.synth = @ + 1]
               /\ UNCHANGED result
          ELSE /\ pc' = "done"
               /\ result' = IF synth.parsed
                            THEN [kind |-> "json", env |-> synth.env, text |-> <<>>,
                                  from |-> <<>>, via |-> "ensemble"]
                            ELSE [kind |-> "text", env |-> NoEnvelope,
                                  text |-> IF successfulResults[1] = <<>> THEN EmptyObjectText
                                           ELSE successfulResults[1],
                                  from |-> <<>>, via |-> "ensemble"]
               /\ log' = [log EXCEPT !.synth = @ + 1]
               /\ UNCHANGED error
    /\ UNCHANGED <<app, home>>

\* the continuation of await Promise.allSettled(promises)
EnsembleJoin ==
    /\ pc = "ensemble"
    /\ \A i \in 1..Len(calls) : Settled(calls[i])
    /\ UNCHANGED <<apiSettings, rubric, attempt, inflight, lastError, runs, calls>>
    /\ LET successfulResults == SuccessfulTexts(calls)
           synth == synthesizeResults(successfulResults)
       IN IF Len(successfulResults) = 0
          THEN /\ pc' = "failed"
               /\ error' = [NoError EXCEPT !.kind = "allproviders", !.errors = RejectedMessages(calls)]
               /\ UNCHANGED <<result, log>>
          ELSE IF synth.threw
          THEN /\ pc' = "failed"
               /\ error' = [NoError EXCEPT !.kind = "typeerror"]
               /\ log' = [log EXCEPT !.synth = @ + 1]
               /\ UNCHANGED result
          ELSE /\ pc' = "done"
               /\ result' = IF synth.parsed
                            THEN [kind |-> "json", env |-> synth.env, text |-> <<>>,
                                  from |-> <<>>, via |-> "ensemble"]
                            ELSE [kind |-> "text", env |-> NoEnvelope,
                                  text |-> IF successfulResults[1] = <<>> THEN EmptyObjectText
                                           ELSE successfulResults[1],
                                  from |-> <<>>, via |-> "ensemble"]
               /\ log' = [log EXCEPT !.synth = @ + 1]
               /\ UNCHANGED error
    /\ UNCHANGED <<app, home>>

----------------------------------------------------------------------------
(* Specification *)

\* settings evaluateChat is called with; a provider outside the switch of
\* singleEvaluation is explored with one run
SettingsSpace ==
    {s \in [provider : {"gemini", "unknown", "ensemble"}, hasKey : BOOLEAN, useServerSide : BOOLEAN,
            evaluationRuns : 1..MaxRuns, modelOk : BOOLEAN] :
        s.evaluationRuns > 1 => s.provider = "gemini"}

Next ==
    \/ \E s \in SettingsSpace, c \in 1..MaxCriteria : EvaluateChat(s, c) /\ UNCHANGED home
    \/ \E response \in Responses : AttemptResolves(response)
    \/ AttemptRejects
    \/ \E response \in Responses : FallbackResolves(response)
    \/ FallbackRejects
    \/ \E i \in 1..MaxRuns, response \in RunResponses : RunResolves(i, response)
    \/ \E i \in 1..MaxRuns : RunRejects(i)
    \/ KRunJoin
    \/ \E apiKeys \in SUBSET Range(Providers), enabledServices \in SUBSET Range(Providers) :
           EvaluateEnsembleOnClient(apiKeys, enabledServices)
    \/ \E i \in 1..Len(Providers), text \in Responses : ProviderResolves(i, text)
    \/ \E i \in 1..Len(Providers), message \in ErrorMessages : ProviderRejects(i, message)
    \/ EnsembleJoin
    \/ AttemptHangs
    \/ \E i \in 1..MaxRuns : RunHangs(i)
    \/ \E i \in 1..Len(Providers) : ProviderHangs(i)

Spec == Init /\ [][Next]_vars

TypeOK ==
    /\ pc \in {"idle", "single", "fallback", "kruns", "ensemble", "parsing", "done", "failed"}
    /\ attempt \in 0..MAX_RETRIES

----------------------------------------------------------------------------
(* The parser on its own: any text of at most MaxTextLen tokens *)

MaxTextLen == 4

JsonValues ==
    {JsonPrim("null"), JsonPrim("num"), GoodJson, ShortJson, NoTotalJson, NotListJson, NullItemJson}

Tokens == {Tok("ws"), Tok("prose"), Tok("ticks"), Tok("jsontag"), Tok("trunc")}
              \cup {Val(v) : v \in JsonValues}

Texts == UNION {[1..n -> Tokens] : n \in 0..MaxTextLen}

InitParser ==
    /\ pc = "parsing"
    /\ apiSettings = NoSettings
    /\ rubric \in {RubricOf(c) : c \in 1..MaxCriteria}
    /\ attempt = 0
    /\ inflight = "none"
    /\ lastError = ""
    /\ runs = <<>>
    /\ calls = [i \in 1..Len(Providers) |-> NoSlot]
    /\ result \in {[NoResult EXCEPT !.from = text] : text \in Texts}
    /\ error = NoError
    /\ log = [NoLog EXCEPT !.mode = "parser"]
    /\ app = NoApp
    /\ home = NoHome

\* one call parseEvaluationResponse(result.from, rubric)
ParseResponse ==
    /\ pc = "parsing"
    /\ LET parsed == parseEvaluationResponse(result.from, rubric)
       IN IF parsed.raised
          THEN /\ pc' = "failed"
               /\ error' = [NoError EXCEPT !.kind = "typeerror"]
               /\ UNCHANGED result
          ELSE /\ pc' = "done"
               /\ result' = [result EXCEPT !.kind = "envelope", !.env = parsed.env, !.via = "parser"]
               /\ UNCHANGED error
    /\ UNCHANGED <<apiSettings, rubric, attempt, inflight, lastError, runs, calls, log>>
    /\ UNCHANGED <<app, home>>

NextParser == ParseResponse

SpecParser == InitParser /\ [][NextParser]_vars

----------------------------------------------------------------------------
(* The page: AppContext, Home, Admin and the /api/config handler *)

\* providers the admin selects among, and those whose key field is edited
AppProviders == {"gemini", "openai"}
KeyProviders == {"gemini"}

\* PRESET_API_KEYS: the providers whose key is built into the bundle
PresetKeys == {"gemini"}

\* savedApiSettings after the migrations of initSettings: nothing saved, saved
\* by this version (apiKeys, no apiKey field), or saved by a version that had
\* the single apiKey field, which the migration copies to apiKeys.gemini.
\* The models object always exists after the migration, so the model name of
\* the selected provider is valid.
InitialSettings ==
    {[provider |-> p, apiKeys |-> k, apiKey |-> FALSE, evaluationRuns |-> n] :
        p \in AppProviders, k \in SUBSET KeyProviders, n \in 1..2}
    \cup {[provider |-> p, apiKeys |-> {"gemini"}, apiKey |-> TRUE, evaluationRuns |-> 1] :
        p \in AppProviders}

\* body of POST /api/config and value stored under CONFIG_KEY: the fields of
\* the settings object that the page reads back or that hold a key
ConfigOf(a) == [present |-> TRUE, provider |-> a.provider, apiKeys |-> a.apiKeys, apiKey |-> a.apiKey]

\* the page is mounted: initSettings has loaded the local settings and awaits
\* its fetch of /api/config; the store is empty or holds a policy without keys
InitApp ==
    /\ pc = "idle"
    /\ apiSettings = NoSettings
    /\ rubric = <<>>
    /\ attempt = 0
    /\ inflight = "none"
    /\ lastError = ""
    /\ runs = <<>>
    /\ calls = [i \in 1..Len(Providers) |-> NoSlot]
    /\ result = NoResult
    /\ error = NoError
    /\ log = NoLog
    /\ \E a \in InitialSettings, kv \in {NoConfig, ConfigOf([NoAppSettings EXCEPT !.provider = "openai"])} :
           app = [NoApp EXCEPT !.settings = a, !.overlay = "pending", !.kv = kv]
    /\ home = NoHome

\* the apiSettings object Home passes to evaluateChat
HomeSettings(a) ==
    [provider |-> a.provider,
     hasKey |-> (a.provider \in a.apiKeys) \/ a.apiKey,
     useServerSide |-> ~a.apiKey,
     evaluationRuns |-> a.evaluationRuns,
     modelOk |-> TRUE]

\* Home.handleChatSubmit up to its await; c = 0 stands for no rubric selected
HandleChatSubmit(content, c) ==
    /\ pc = "idle"
    /\ home.step = 1
    /\ IF content = "blank" \/ c = 0
       THEN /\ home' = [home EXCEPT !.error = IF content = "blank" THEN "no content" ELSE "no rubric"]
            /\ UNCHANGED <<pc, apiSettings, rubric, attempt, inflight, lastError, runs, calls,
                           result, error, log, app>>
       ELSE /\ EvaluateChat(HomeSettings(app.settings), c)
            /\ home' = [home EXCEPT !.error = "", !.isLoading = TRUE, !.submitted = TRUE,
                                    !.snapshot = app.settings, !.overlayAtSubmit = app.overlay]

\* variant: the result is stored and shown whether or not the call threw
HomeResumes_NoCatch ==
    /\ home.isLoading
    /\ pc \in {"done", "failed"}
    /\ home' = [home EXCEPT !.evaluationResult = result, !.step = 2, !.isLoading = FALSE]
    /\ UNCHANGED <<pc, apiSettings, rubric, attempt, inflight, lastError, runs, calls,
                   result, error, log, app>>

\* Home.handleChatSubmit after its await: the try, catch and finally blocks
HomeResumes ==
    /\ home.isLoading
    /\ pc \in {"done", "failed"}
    /\ home' = IF pc = "done"
               THEN [home EXCEPT !.evaluationResult = result, !.step = 2, !.isLoading = FALSE]
               ELSE [home EXCEPT !.error = "evaluation error", !.isLoading = FALSE]
    /\ UNCHANGED <<pc, apiSettings, rubric, attempt, inflight, lastError, runs, calls,
                   result, error, log, app>>

\* GET /api/config answers with what the store holds and initSettings
\* resumes: a config with a provider overrides the provider and keeps the keys
OverlayArrives ==
    /\ app.overlay = "pending"
    /\ app' = [app EXCEPT !.overlay = "applied",
                          !.settings.provider = IF app.kv.present /\ app.kv.provider # ""
                                                THEN app.kv.provider ELSE @]
    /\ UNCHANGED <<pc, apiSettings, rubric, attempt, inflight, lastError, runs, calls,
                   result, error, log, home>>

\* the fetch of /api/config rejects, or answers with a status that is not ok
OverlayFails ==
    /\ app.overlay = "pending"
    /\ app' = [app EXCEPT !.overlay = "failed"]
    /\ UNCHANGED <<pc, apiSettings, rubric, attempt, inflight, lastError, runs, calls,
                   result, error, log, home>>

\* Admin.handleLogin: authenticateAdmin compares the password entered
HandleLogin(matches) ==
    /\ ~app.isAdminAuthenticated
    /\ app' = [app EXCEPT !.isAdminAuthenticated = matches]
    /\ UNCHANGED <<pc, apiSettings, rubric, attempt, inflight, lastError, runs, calls,
                   result, error, log, home>>

\* the provider select of the admin page
AdminSelectProvider(p) ==
    /\ app.isAdminAuthenticated
    /\ app' = [app EXCEPT !.settings.provider = p]
    /\ UNCHANGED <<pc, apiSettings, rubric, attempt, inflight, lastError, runs, calls,
                   result, error, log, home>>

\* a key field of the admin page is edited: filled in, or cleared
AdminEditKey(p, filled) ==
    /\ app.isAdminAuthenticated
    /\ app' = [app EXCEPT !.settings.apiKeys = IF filled THEN @ \cup {p} ELSE @ \ {p}]
    /\ UNCHANGED <<pc, apiSettings, rubric, attempt, inflight, lastError, runs, calls,
                   result, error, log, home>>

\* unlockApiWithPin: the right PIN replaces apiKeys by the preset keys
UnlockApiWithPin(matches) ==
    /\ app.isAdminAuthenticated
    /\ app' = IF matches THEN [app EXCEPT !.settings.apiKeys = PresetKeys] ELSE app
    /\ UNCHANGED <<pc, apiSettings, rubric, attempt, inflight, lastError, runs, calls,
                   result, error, log, home>>

\* Admin.handleApiSave: saveGlobalSettings keeps the settings locally and
\* posts the whole settings object to /api/config
HandleApiSave ==
    /\ app.isAdminAuthenticated
    /\ app.post = NoConfig
    /\ app' = [app EXCEPT !.post = ConfigOf(app.settings)]
    /\ UNCHANGED <<pc, apiSettings, rubric, attempt, inflight, lastError, runs, calls,
                   result, error, log, home>>

\* the handler of POST /api/config: kv.set(CONFIG_KEY, settings)
ConfigPostArrives ==
    /\ app.post # NoConfig
    /\ app' = [app EXCEPT !.kv = app.post, !.post = NoConfig]
    /\ UNCHANGED <<pc, apiSettings, rubric, attempt, inflight, lastError, runs, calls,
                   result, error, log, home>>

\* the request does not reach the store: the fetch rejects or kv.set throws
ConfigPostFails ==
    /\ app.post # NoConfig
    /\ app' = [app EXCEPT !.post = NoConfig]
    /\ UNCHANGED <<pc, apiSettings, rubric, attempt, inflight, lastError, runs, calls,
                   result, error, log, home>>

\* answers given to the evaluations started from the page
AppResponses == {BlankText, GoodText}

NextApp ==
    \/ \E content \in {"blank", "chat"}, c \in 0..MaxCriteria : HandleChatSubmit(content, c)
    \/ HomeResumes
    \/ OverlayArrives
    \/ OverlayFails
    \/ \E matches \in BOOLEAN : HandleLogin(matches)
    \/ \E p \in AppProviders : AdminSelectProvider(p)
    \/ \E p \in KeyProviders, filled \in BOOLEAN : AdminEditKey(p, filled)
    \/ \E matches \in BOOLEAN : UnlockApiWithPin(matches)
    \/ HandleApiSave
    \/ ConfigPostArrives
    \/ ConfigPostFails
    \/ \E response \in AppResponses : AttemptResolves(response)
    \/ AttemptRejects
    \/ \E response \in AppResponses : FallbackResolves(response)
    \/ FallbackRejects
    \/ AttemptHangs
    \/ \E i \in 1..MaxRuns, response \in AppResponses : RunResolves(i, response)
    \/ \E i \in 1..MaxRuns : RunRejects(i)
    \/ \E i \in 1..MaxRuns : RunHangs(i)
    \/ KRunJoin

SpecApp == InitApp /\ [][NextApp]_vars

----------------------------------------------------------------------------
(* Home: one page instance submitting, showing and resetting evaluations *)

\* Home.handleReset, the onReset of the result section, which is rendered
\* when step is 2 and evaluationResult is set
HandleReset ==
    /\ home.step = 2
    /\ home.evaluationResult # NoResult
    /\ home' = [home EXCEPT !.evaluationResult = NoResult, !.error = "", !.step = 1]
    /\ UNCHANGED <<pc, apiSettings, rubric, attempt, inflight, lastError, runs, calls,
                   result, error, log, app>>

\* handleChatSubmit has run to its end: the finished call of evaluateChat and
\* its locals are gone, and the next submission starts a new call
HandlerReturns ==
    /\ home.submitted
    /\ ~home.isLoading
    /\ pc \in {"done", "failed"}
    /\ pc' = "idle"
    /\ apiSettings' = NoSettings
    /\ rubric' = <<>>
    /\ attempt' = 0
    /\ inflight' = "none"
    /\ lastError' = ""
    /\ runs' = <<>>
    /\ result' = NoResult
    /\ error' = NoError
    /\ log' = NoLog
    /\ home' = [home EXCEPT !.submitted = FALSE]
    /\ UNCHANGED <<calls, app>>

\* the page is mounted and initSettings has finished
InitHome ==
    /\ pc = "idle"
    /\ apiSettings = NoSettings
    /\ rubric = <<>>
    /\ attempt = 0
    /\ inflight = "none"
    /\ lastError = ""
    /\ runs = <<>>
    /\ calls = [i \in 1..Len(Providers) |-> NoSlot]
    /\ result = NoResult
    /\ error = NoError
    /\ log = NoLog
    /\ \E a \in InitialSettings : app = [NoApp EXCEPT !.settings = a, !.overlay = "applied"]
    /\ home = NoHome

NextHome ==
    \/ \E content \in {"blank", "chat"}, c \in 0..MaxCriteria : HandleChatSubmit(content, c)
    \/ HomeResumes
    \/ HandleReset
    \/ HandlerReturns
    \/ \E response \in AppResponses : AttemptResolves(response)
    \/ AttemptRejects
    \/ \E response \in AppResponses : FallbackResolves(response)
    \/ FallbackRejects
    \/ AttemptHangs
    \/ \E i \in 1..MaxRuns, response \in AppResponses : RunResolves(i, response)
    \/ \E i \in 1..MaxRuns : RunRejects(i)
    \/ \E i \in 1..MaxRuns : RunHangs(i)
    \/ KRunJoin

SpecHome == InitHome /\ [][NextHome]_vars

----------------------------------------------------------------------------
(* AppProvider: the rubric list, the selected rubric and their saved copies *)

MaxAdded == 2

\* Date.now().toString() of successive calls of addRubric
NewIds == <<"t1", "t2", "t3", "t4">>

RubricNames == {"v0", "v1"}

\* the effect on [rubrics]: the list is saved unless it is empty
SaveRubricsEffect(storage, rubrics) ==
    IF Len(rubrics) > 0 THEN [storage EXCEPT !.rubrics = rubrics] ELSE storage

Find(list, id) ==
    LET hits == SelectSeq(list, LAMBDA r : r.id = id)
    IN IF hits = <<>> THEN NullRubric ELSE hits[1]

SelectRubric(r) ==
    /\ \E i \in 1..Len(app.rubrics) : app.rubrics[i] = r
    /\ app' = [app EXCEPT !.currentRubric = r,
                          !.storage.currentRubricId = r.id,
                          !.reload = NoReload]
    /\ UNCHANGED <<pc, apiSettings, rubric, attempt, inflight, lastError, runs, calls,
                   result, error, log, home>>

AddRubric(name) ==
    /\ app.added < MaxAdded
    /\ LET newRubric == [id |-> NewIds[app.added + 1], name |-> name]
           rubrics == Append(app.rubrics, newRubric)
       IN app' = [app EXCEPT !.rubrics = rubrics,
                             !.storage = SaveRubricsEffect(@, rubrics),
                             !.added = @ + 1,
                             !.reload = NoReload]
    /\ UNCHANGED <<pc, apiSettings, rubric, attempt, inflight, lastError, runs, calls,
                   result, error, log, home>>

UpdateRubric(id, name) ==
    /\ \E i \in 1..Len(app.rubrics) : app.rubrics[i].id = id
    /\ LET rubrics == [i \in 1..Len(app.rubrics) |->
                         IF app.rubrics[i].id = id
                         THEN [app.rubrics[i] EXCEPT !.name = name] ELSE app.rubrics[i]]
       IN app' = [app EXCEPT !.rubrics = rubrics,
                             !.currentRubric = IF @.id = id THEN [@ EXCEPT !.name = name] ELSE @,
                             !.storage = SaveRubricsEffect(@, rubrics),
                             !.reload = NoReload]
    /\ UNCHANGED <<pc, apiSettings, rubric, attempt, inflight, lastError, runs, calls,
                   result, error, log, home>>

DeleteRubric(id) ==
    /\ \E i \in 1..Len(app.rubrics) : app.rubrics[i].id = id
    /\ LET rubrics == SelectSeq(app.rubrics, LAMBDA r : r.id # id)
           selected == app.currentRubric.id = id
           saved == IF selected
                    THEN [app.storage EXCEPT !.currentRubricId = NullRubric.id]
                    ELSE app.storage
       IN app' = [app EXCEPT !.rubrics = rubrics,
                             !.currentRubric = IF selected THEN NullRubric ELSE @,
                             !.storage = SaveRubricsEffect(saved, rubrics),
                             !.reload = NoReload]
    /\ UNCHANGED <<pc, apiSettings, rubric, attempt, inflight, lastError, runs, calls,
                   result, error, log, home>>

\* the page is loaded again: useState([]) and useState(null), then the part
\* of initSettings that reads the rubrics, then the effect on [rubrics]
Reload ==
    /\ ~app.reload.done
    /\ LET savedRubrics == app.storage.rubrics
           savedCurrentRubricId == app.storage.currentRubricId
           rubrics == IF savedRubrics # NothingSaved /\ Len(savedRubrics) > 0
                      THEN savedRubrics ELSE <<DEFAULT_RUBRIC>>
           found == IF savedCurrentRubricId # NullRubric.id
                    THEN Find(IF savedRubrics # NothingSaved THEN savedRubrics
                              ELSE <<DEFAULT_RUBRIC>>, savedCurrentRubricId)
                    ELSE NullRubric
       IN app' = [app EXCEPT !.rubrics = rubrics,
                             !.currentRubric = found,
                             !.storage = SaveRubricsEffect(@, rubrics),
                             !.reload = [done |-> TRUE, before |-> app.rubrics]]
    /\ UNCHANGED <<pc, apiSettings, rubric, attempt, inflight, lastError, runs, calls,
                   result, error, log, home>>

InitRubrics == Init

NextRubrics ==
    \/ \E i \in 1..(MaxAdded + 1) : i <= Len(app.rubrics) /\ SelectRubric(app.rubrics[i])
    \/ \E name \in RubricNames : AddRubric(name)
    \/ \E id \in {"default"} \cup Range(NewIds), name \in RubricNames : UpdateRubric(id, name)
    \/ \E id \in {"default"} \cup Range(NewIds) : DeleteRubric(id)
    \/ Reload

SpecRubrics == InitRubrics /\ [][NextRubrics]_vars

----------------------------------------------------------------------------
(* Properties *)

NonEmpty(t) == t \notin {Undefined, ""}

CompleteEntry(e) ==
    NonEmpty(e.evidence) /\ NonEmpty(e.strengths) /\ NonEmpty(e.weaknesses) /\ NonEmpty(e.improvement)

\* the returned envelope is the parser's degraded envelope
ReturnedDegraded ==
    result.via \in {"direct", "proxy", "fallback"} /\ parseEvaluationResponse(result.from, rubric).degraded

Perms(n) == {f \in [1..n -> 1..n] : \A i, j \in 1..n : f[i] = f[j] => i = j}

Permuted(s, f) == [i \in 1..Len(s) |-> s[f[i]]]

\* the numeric score of each criterion, by name
ScoreByName(env) == {<<e.name, e.score>> : e \in Range(env.criteriaScores)}

\* the numeric score of each criterion, in the order of the envelope
NameScores(env) ==
    [i \in 1..Len(env.criteriaScores) |-> <<env.criteriaScores[i].name, env.criteriaScores[i].score>>]

SameNumbers(a, b) ==
    a.totalScore = b.totalScore /\ a.grade = b.grade /\ ScoreByName(a) = ScoreByName(b)

OkRuns == {i \in 1..Len(runs) : runs[i].st = "ok"}

\* C1: every envelope returned by evaluateChat (single-shot, degraded or
\* K-run consensus) has one criteriaScores entry per rubric criterion, each
\* with non-empty evidence, strengths, weaknesses and improvement.
C1_EveryEnvelopeComplete ==
    (pc = "done" /\ log.mode \in {"single", "kruns"}) =>
        /\ Len(result.env.criteriaScores) = Len(rubric)
        /\ \A i \in 1..Len(result.env.criteriaScores) : CompleteEntry(result.env.criteriaScores[i])

\* C2: in every non-degraded envelope returned (single-shot, K-run consensus,
\* ensemble consensus) grade is the threshold table applied to totalScore.
\* Envelopes that carry the N/A placeholder instead of a letter are left out.
C2_GradeFromTotalScore ==
    (pc = "done" /\ result.kind \in {"envelope", "json"} /\ ~ReturnedDegraded
                 /\ result.env.grade \notin {"N/A", Undefined}) =>
        result.env.grade = calculateGrade(result.env.totalScore)

WellFormedEntry(e) ==
    /\ e.criterionId # Undefined
    /\ e.name # Undefined
    /\ e.score >= 0
    /\ e.maxScore > 0

WellFormed(env) ==
    /\ env.totalScore >= 0
    /\ NonEmpty(env.grade)
    /\ \A i \in 1..Len(env.criteriaScores) : WellFormedEntry(env.criteriaScores[i])
    /\ env.characteristics # NoList
    /\ env.suggestions # NoList
    /\ env.qualitativeEvaluation # Undefined
    /\ env.studentRecordDraft # Undefined

\* C3: for any input text parseEvaluationResponse raises nothing and returns
\* an envelope with a numeric totalScore, a grade, a list of criteriaScores
\* entries (each with id, name, score and maxScore), the two lists and the
\* two narrative texts.
C3_ParserTotal ==
    /\ pc # "failed"
    /\ pc = "done" => result.kind = "envelope" /\ WellFormed(result.env)

\* the parser has answered JSON null with the degraded envelope of a rubric
\* of two criteria
C3_Witness ==
    /\ pc = "done"
    /\ result.from = NullText
    /\ result.env.grade = "N/A"
    /\ Len(result.env.criteriaScores) = 2

\* C4: synthesizeKRunResults gives the same totalScore, grade and score per
\* criterion name for every permutation of the successful envelopes.
C4_KRunSynthesisCommutative ==
    (pc = "done" /\ log.mode = "kruns") =>
        \A f \in Perms(Len(SuccessfulRuns(runs))) :
            SameNumbers(synthesizeKRunResults(Permuted(SuccessfulRuns(runs), f)), result.env)

\* three successful runs with different totals and differently ordered
\* criteria have been synthesized
C4_Witness ==
    /\ pc = "done"
    /\ log.mode = "kruns"
    /\ Cardinality(OkRuns) = 3
    /\ result.env.evaluationMeta.min < result.env.evaluationMeta.max
    /\ \E i, j \in OkRuns :
         /\ Len(runs[i].env.criteriaScores) = 2
         /\ Len(runs[j].env.criteriaScores) = 2
         /\ runs[i].env.criteriaScores[1].name = runs[j].env.criteriaScores[2].name
         /\ runs[i].env.criteriaScores[1].score # runs[j].env.criteriaScores[2].score

\* C5: synthesizeResults gives the same totalScore, grade and score per
\* criterion name for every permutation of the successful provider texts.
C5_EnsembleSynthesisCommutative ==
    (pc = "done" /\ log.mode = "ensemble" /\ result.kind = "json") =>
        \A f \in Perms(Len(SuccessfulTexts(calls))) :
            LET r == synthesizeResults(Permuted(SuccessfulTexts(calls), f))
            IN ~r.threw /\ r.parsed /\ SameNumbers(r.env, result.env)

C7_AllRunsFailed ==
    (log.mode = "kruns" /\ pc # "kruns" /\ OkRuns = {}) =>
        /\ pc = "failed"
        /\ error.kind = "allruns"
        /\ result = NoResult
        /\ log.synth = 0

\* three runs were dispatched and all three failed
C7_Witness ==
    /\ log.mode = "kruns"
    /\ pc = "failed"
    /\ Len(runs) = 3
    /\ \A i \in 1..3 : runs[i].st = "failed"

\* C8: when the ensemble executor fails with the quorum error, no provider
\* call has been started.
C8_QuorumBeforeDispatch ==
    error.kind = "quorum" =>
        /\ log.direct = 0
        /\ \A i \in 1..Len(calls) : calls[i].st = "none"

\* C9: when the first two direct attempts have failed and the proxy fallback
\* answers (useServerSide not set), evaluateChat returns the envelope parsed
\* from the proxy's answer and throws nothing.
C9_FallbackEnvelopeReturned ==
    (log.mode = "single" /\ ~apiSettings.useServerSide /\ log.failed >= 2 /\ log.fallbackOk) =>
        /\ pc = "done"
        /\ error = NoError
        /\ result.kind = "envelope"
        /\ result.via = "fallback"
        /\ result.env = parseEvaluationResponse(result.from, rubric).env

\* the provider was called directly and failed each time, the proxy answered
\* prose and the degraded envelope was returned
C9_Witness ==
    /\ log.mode = "single"
    /\ log.direct = 3
    /\ log.failed = 3
    /\ log.fallbackOk
    /\ pc = "done"
    /\ result.from = ProseText

\* C10: a single-shot evaluateChat issues at most 3 requests through
\* singleEvaluation and at most 1 fallback request; the fallback request is
\* issued only after 3 failed attempts and with useServerSide not set; once
\* an attempt has succeeded no further request has been issued.
C10_BoundedAttempts ==
    log.mode = "single" =>
        /\ log.direct <= 3
        /\ log.direct + log.proxy <= 3
        /\ log.fallback <= 1
        /\ log.fallback = 1 => (log.failed = 3 /\ ~apiSettings.useServerSide)
        /\ (pc = "done" /\ result.via # "fallback") =>
               (log.direct + log.proxy = log.failed + 1 /\ log.fallback = 0)

\* three direct requests failed and the single fallback request was issued
C10_Witness ==
    /\ log.mode = "single"
    /\ log.direct = 3
    /\ log.fallback = 1
    /\ pc = "fallback"

\* evaluateChat has thrown under a configuration of one run
SingleShotFailed == pc = "failed" /\ log.mode \in {"single", "invalid"} /\ apiSettings.evaluationRuns = 1

C12_BlankNeverReturned ==
    /\ (pc = "done" /\ result.via \in {"direct", "proxy", "fallback"}) => ~IsBlank(result.from)
    /\ \A i \in 1..Len(runs) : runs[i].st = "ok" => ~IsBlank(runs[i].text)

\* C13: the ensemble executor calls synthesizeResults only when at least two
\* provider calls succeeded; with exactly one success it returns nothing.
C13_SuccessQuorum ==
    log.mode = "ensemble" =>
        /\ log.synth > 0 => Len(SuccessfulTexts(calls)) >= 2
        /\ (pc = "done" => Len(SuccessfulTexts(calls)) >= 2)

Dispatched == {i \in 1..Len(calls) : calls[i].st # "none"}

\* C14: once the ensemble executor has passed its quorum check, it neither
\* synthesizes nor returns nor throws while a dispatched call is pending; and
\* when every dispatched call has failed it throws the all-providers error,
\* which lists the message of each failed call in dispatch order, without
\* calling synthesizeResults and without returning anything.
C14_WaitsForAllOutcomes ==
    (log.mode = "ensemble" /\ error.kind # "quorum") =>
        /\ (pc \in {"done", "failed"} \/ log.synth > 0) =>
               \A i \in Dispatched : calls[i].st \in {"ok", "failed"}
        /\ (pc \in {"done", "failed"} /\ SuccessfulTexts(calls) = <<>>) =>
               /\ pc = "failed"
               /\ error.kind = "allproviders"
               /\ Len(error.errors) = Cardinality(Dispatched)
               /\ error.errors = RejectedMessages(calls)
               /\ \A k \in 1..Len(error.errors) : error.errors[k] # ""
               /\ result = NoResult
               /\ log.synth = 0

\* three calls were dispatched and all three failed, one of them without a
\* message: the error thrown lists three failures
C14_Witness ==
    /\ log.mode = "ensemble"
    /\ pc = "failed"
    /\ error.kind = "allproviders"
    /\ error.errors = <<"quota", "Unknown error", "network">>

\* evaluateChat or evaluateEnsembleOnClient has been called and has neither
\* returned nor thrown
InProgress == pc \in {"single", "fallback", "kruns", "ensemble"}

\* C15: an evaluation in progress can always take a further step: a request
\* whose remote side never answers is aborted and counted as failed, so no
\* evaluation is left waiting with nothing able to happen.
C15_NoEvaluationHangs == InProgress => ENABLED Next

\* C16: the totalScore of every envelope returned (single-shot, K-run
\* consensus, ensemble consensus) is a number from 0 to 100.
C16_TotalScoreInRange ==
    (pc = "done" /\ result.kind \in {"envelope", "json"}) => result.env.totalScore \in 0..100

\* C17: while an evaluation started from the Home page with a key for the
\* selected provider in the settings has not reached its proxy fallback, no
\* request of it has gone to the proxy.
C17_KeyedProviderCalledDirectly ==
    (home.submitted /\ home.snapshot.provider \in home.snapshot.apiKeys /\ log.fallback = 0) =>
        /\ log.proxy = 0
        /\ inflight # "proxy"

\* C18: an evaluation started from the Home page was not started while the
\* fetch of the global config issued on mount was pending, and it runs with
\* the provider the page had when it was started, whatever the overlay does
\* to the page's settings afterwards.
C18_OverlayResolvedBeforeEvaluation ==
    home.submitted =>
        /\ home.overlayAtSubmit # "pending"
        /\ apiSettings.provider = home.snapshot.provider

\* C19: every evaluation runs in exactly one mode, chosen by its
\* configuration: provider ensemble reaches the ensemble executor, otherwise
\* evaluationRuns > 1 reaches the K-run executor, otherwise the single-shot
\* retry loop runs; an ensemble configuration is never run as single-shot or
\* K-run, and the ensemble executor with fewer than two qualifying providers
\* fails with the quorum error.
C19_ModeSelection ==
    /\ log.mode \in {"single", "kruns"} =>
           /\ apiSettings.provider # "ensemble"
           /\ log.mode = "kruns" <=> apiSettings.evaluationRuns > 1
    /\ log.mode = "ensemble" =>
           (Cardinality({i \in 1..Len(calls) : calls[i].st # "none"}) < 2 <=> error.kind = "quorum")
    /\ log.mode \in {"single", "invalid"} => runs = <<>>
    /\ log.mode # "ensemble" => \A i \in 1..Len(calls) : calls[i].st = "none"

\* C20: no request to /api/config carries an API key and the global config
\* of the server holds none, so GET /api/config returns none.
C20_KeysStayInBrowser ==
    /\ app.post.apiKeys = {} /\ ~app.post.apiKey
    /\ app.kv.apiKeys = {} /\ ~app.kv.apiKey

FailedRuns == {i \in 1..Len(runs) : runs[i].st = "failed"}

\* C21: a run of a K-run batch is recorded as failed only after its own three
\* attempts (and, with useServerSide not set, its proxy fallback) have
\* failed: the requests issued for the batch cover one request per run, two
\* retries per failed run and one fallback request per failed run.
C21_RunsAreSingleShot ==
    (log.mode = "kruns" /\ Route(apiSettings) # "unsupported") =>
        /\ log.direct + log.proxy >= Len(runs) + MAX_RETRIES * Cardinality(FailedRuns)
        /\ ~apiSettings.useServerSide => log.fallback >= Cardinality(FailedRuns)

\* C22: the consensus envelope of a K-run batch carries, as its
\* qualitativeEvaluation, the qualitativeEvaluation text of the first
\* successful run.
C22_ConsensusQualitativeEvaluation ==
    (pc = "done" /\ log.mode = "kruns") =>
        result.env.qualitativeEvaluation =
            SuccessfulRuns(runs)[1].qualitativeEvaluation

NoDuplicates(s) == \A i, j \in 1..Len(s) : s[i] = s[j] => i = j

SynthesisInputs ==
    IF log.mode = "kruns" THEN SuccessfulRuns(runs)
    ELSE ValidResults(SuccessfulTexts(calls))

InputValues(field) ==
    UNION {Range(OrList(field[i], <<>>)) : i \in 1..Len(field)}

\* C23: in a consensus envelope of either synthesizer, characteristics and
\* suggestions have no duplicates, hold only values of some input, and have
\* at most 5 and at most 4 elements.
C23_ListsDedupedAndCapped ==
    (pc = "done" /\ result.via \in {"kruns", "ensemble"} /\ result.kind # "text") =>
        LET inputs == SynthesisInputs
        IN /\ NoDuplicates(result.env.characteristics)
           /\ NoDuplicates(result.env.suggestions)
           /\ Range(result.env.characteristics) \subseteq
                InputValues([i \in 1..Len(inputs) |-> inputs[i].characteristics])
           /\ Range(result.env.suggestions) \subseteq
                InputValues([i \in 1..Len(inputs) |-> inputs[i].suggestions])
           /\ Len(result.env.characteristics) <= 5
           /\ Len(result.env.suggestions) <= 4

FanOutState ==
    log.mode = "kruns" =>
        /\ Len(runs) = apiSettings.evaluationRuns
        /\ log.direct + log.proxy = Len(runs)
        /\ pc # "kruns" => \A i \in 1..Len(runs) : runs[i].st \in {"ok", "failed"}
        /\ log.synth > 0 =>
             /\ pc = "done"
             /\ result.env.evaluationMeta.runs = Cardinality(OkRuns)

FanOutStep ==
    (pc = "kruns" /\ log.mode = "kruns") =>
        /\ Len(runs') = Len(runs)
        /\ \A j \in 1..Len(runs) : runs[j].st \in {"ok", "failed"} => runs'[j] = runs[j]
        /\ \A j, k \in 1..Len(runs) : (runs'[j] # runs[j] /\ runs'[k] # runs[k]) => j = k
        /\ log'.direct = log.direct
        /\ log'.proxy = log.proxy

\* C25: a K-run batch of N runs starts exactly N provider calls, all of them
\* at dispatch and none later; a run that settles, failing or not, changes
\* its own slot only and leaves every other run as it was; the batch is left,
\* and the synthesis made, only when all N runs have settled, and the
\* synthesis counts every successful run.
C25_FanOut == []FanOutState /\ [][FanOutStep]_vars

C25_Witness ==
    /\ pc = "done"
    /\ log.mode = "kruns"
    /\ Len(runs) = 3
    /\ runs[1].st = "failed"
    /\ runs[2].st = "ok"
    /\ runs[3].st = "ok"
    /\ result.env.evaluationMeta.runs = 2

\* the part of a degraded qualitativeEvaluation between its fixed heading and
\* its closing dots
Excerpt(q) == SubSeq(q, Len("parse error, raw response: ") + 1, Len(q) - Len("..."))

DegradedShape(env, raw, r) ==
    /\ env.totalScore = 0
    /\ env.grade = "N/A"
    /\ Len(env.criteriaScores) = Len(r)
    /\ \A i \in 1..Len(r) :
         LET e == env.criteriaScores[i]
         IN /\ e.criterionId = r[i].id
            /\ e.name = r[i].name
            /\ e.score = 0
            /\ e.maxScore = 5
            /\ e.percentage = 0
            /\ e.feedback = "cannot parse"
    /\ LET shown == Excerpt(env.qualitativeEvaluation)
       IN /\ Len(shown) = (IF Len(raw) < 500 THEN Len(raw) ELSE 500)
          /\ shown = SubSeq(raw, 1, Len(shown))

\* C26: a text that is not blank and cannot be decoded gives the degraded
\* envelope: totalScore 0, grade N/A, one entry per rubric criterion in rubric
\* order with the criterion's id and name and the could-not-parse placeholder,
\* and a qualitativeEvaluation showing the first 500 characters of the text;
\* evaluateChat returns it at once, with no error and no further attempt, so
\* that an attempt fails only by a rejection or a blank answer.
C26_DegradedEnvelope ==
    /\ (pc = "done" /\ ReturnedDegraded) =>
          /\ error = NoError
          /\ result.kind = "envelope"
          /\ DegradedShape(result.env, RenderText(result.from), rubric)
    /\ \A i \in OkRuns :
          parseEvaluationResponse(runs[i].text, rubric).degraded =>
              DegradedShape(runs[i].env, RenderText(runs[i].text), rubric)
    /\ lastError \in {"", "empty", "api", "unsupported"}

C26_Witness ==
    /\ pc = "done"
    /\ log.mode = "single"
    /\ result.via = "direct"
    /\ result.from = LongText
    /\ log.failed = 0
    /\ log.direct = 1
    /\ Len(rubric) = 2
    /\ Len(Excerpt(result.env.qualitativeEvaluation)) = 500

\* the criteriaScores items of the JSON object a response text decodes to
DecodedItems(response) ==
    LET jsonMatch == FenceMatch(response)
        decoded == JSONParse(Trim(IF jsonMatch.matched THEN jsonMatch.inner ELSE response))
    IN IF decoded.v.cs.k = "list" THEN decoded.v.cs.items ELSE <<>>

NumbersDefined(e) ==
    /\ e.score \notin {Absent, JNull}
    /\ e.maxScore \notin {Absent, JNull}
    /\ e.percentage \notin {Absent, JNull}

\* C27: every criteriaScores entry of a returned envelope, the consensus of a
\* K-run batch included, has a score, a maxScore and a percentage; score and
\* maxScore are 0 and 5 where the answer gave none, and percentage is
\* round(score / maxScore * 100) where the answer gave none or null.
C27_PercentagePresent ==
    (pc = "done" /\ result.kind = "envelope") =>
        /\ \A i \in 1..Len(result.env.criteriaScores) :
             NumbersDefined(result.env.criteriaScores[i])
        /\ (result.via \in {"direct", "proxy", "fallback"} /\ ~ReturnedDegraded) =>
             LET items == DecodedItems(result.from)
             IN \A i \in 1..Len(items) :
                  LET e == result.env.criteriaScores[i]
                  IN /\ items[i].score = Absent => e.score = 0
                     /\ items[i].maxScore = Absent => e.maxScore = 5
                     /\ items[i].percentage \in {Absent, JNull} =>
                          e.percentage = MathRound(e.score * 100, e.maxScore)

\* per synthesis input, its totalScore and the name and score of its criteria
InputNumbers ==
    IF log.mode = "kruns"
    THEN LET rs == SuccessfulRuns(runs)
         IN [i \in 1..Len(rs) |->
               [totalScore |-> rs[i].totalScore,
                criteria |-> [k \in 1..Len(rs[i].criteriaScores) |->
                                [name |-> rs[i].criteriaScores[k].name,
                                 score |-> rs[i].criteriaScores[k].score]]]]
    ELSE LET vs == ValidResults(SuccessfulTexts(calls))
         IN [i \in 1..Len(vs) |->
               [totalScore |-> OrNum(vs[i].totalScore, 0),
                criteria |-> LET items == IF vs[i].cs.k = "list" THEN vs[i].cs.items ELSE <<>>
                             IN [k \in 1..Len(items) |->
                                   [name |-> items[k].name,
                                    score |-> OrNum(items[k].score, 0)]]]]

MeanByName(inputs, name) ==
    LET same == SelectSeq(Flatten([i \in 1..Len(inputs) |-> inputs[i].criteria]),
                          LAMBDA c : c.name = name)
    IN MathRound(SumSeq([k \in 1..Len(same) |-> same[k].score]), Len(same))

\* C28: in the consensus of either synthesizer, totalScore is the rounded
\* mean of the inputs' totalScore, the criteria are those of the first input
\* in its order, and the score of each is the rounded mean of the scores the
\* inputs give to the criterion of that name.
C28_NumericReduction ==
    (pc = "done" /\ result.via \in {"kruns", "ensemble"} /\ result.kind # "text") =>
        LET inputs == InputNumbers
            out == result.env.criteriaScores
        IN /\ result.env.totalScore =
                MathRound(SumSeq([i \in 1..Len(inputs) |-> inputs[i].totalScore]), Len(inputs))
           /\ Len(out) = Len(inputs[1].criteria)
           /\ \A k \in 1..Len(out) :
                /\ k <= Len(inputs[1].criteria) => out[k].name = inputs[1].criteria[k].name
                /\ out[k].score = MeanByName(inputs, out[k].name)

HomeState ==
    /\ home.step = 2 => home.evaluationResult # NoResult
    /\ home.isLoading => pc # "idle"
    /\ (home.submitted /\ ~home.isLoading) => pc \in {"done", "failed"}

HomeStep ==
    \* a rejected submission starts nothing and leaves isLoading alone
    /\ (home'.error \in {"no content", "no rubric"} /\ home' # home) =>
          /\ pc' = pc
          /\ log' = log
          /\ <<inflight', runs'>> = <<inflight, runs>>
          /\ home' = [home EXCEPT !.error = home'.error]
          /\ ~home'.isLoading
    \* isLoading is set by an accepted submission, which starts the evaluation
    /\ (~home.isLoading /\ home'.isLoading) => (pc = "idle" /\ pc' # "idle")
    \* the handler resumes after a throw
    /\ (home.isLoading /\ pc = "failed" /\ home' # home) =>
          /\ home'.error # ""
          /\ home'.evaluationResult = home.evaluationResult
          /\ home'.step = home.step
          /\ ~home'.isLoading
    \* the handler resumes after a return
    /\ (home.isLoading /\ pc = "done" /\ home' # home) =>
          /\ home'.evaluationResult = result
          /\ home'.evaluationResult # NoResult
          /\ home'.step = 2
          /\ ~home'.isLoading

\* C29: a submission with blank content or with no rubric selected starts no
\* evaluation and does not set isLoading; when evaluateChat throws, an error
\* message is set and evaluationResult and step stay as they were; isLoading
\* is false whenever handleChatSubmit has finished; and step is 2 only while
\* evaluationResult is set.
C29_HandleChatSubmit == []HomeState /\ [][HomeStep]_vars

C29_Witness ==
    /\ pc = "failed"
    /\ home.submitted
    /\ ~home.isLoading
    /\ home.error = "evaluation error"
    /\ home.step = 1
    /\ home.evaluationResult = NoResult

\* C30: after a reload the rubric list is the list the page held before the
\* reload, so that a deleted rubric, the last one included, does not come
\* back; and currentRubric is null or a rubric of the list.
C30_RubricsDurable ==
    /\ app.reload.done => app.rubrics = app.reload.before
    /\ \/ app.currentRubric = NullRubric
       \/ \E i \in 1..Len(app.rubrics) : app.rubrics[i] = app.currentRubric

====
